---- MODULE Spec2Model ----
(***************************************************************************)
(* digitalneuron: the SWC parser and topo_sort (neuron.py), the analytic    *)
(* mesh assembler (mesh_generator.py), the volumetric mesh generator       *)
(* (mesh_generator_pv.py), the LOD pipeline (process_sphere.py) and the    *)
(* tile API's key resolution (backend/app/main.py).                        *)
(*                                                                         *)
(* Strings are sequences of tokens: "/" and "." are the separators the     *)
(* code looks for, every other token stands for a run of ordinary          *)
(* characters.                                                             *)
(***************************************************************************)
EXTENDS Integers, Sequences, FiniteSets, TLC

VARIABLES
    \* process_sphere.py: process_and_upload
    lod_pc,            \* position in process_and_upload
    input_glb_path,    \* the --input-file argument
    file_exists,       \* os.path.exists(input_glb_path)
    mesh_lod0,         \* the loaded mesh
    base_filename,     \* splitext(basename(input_glb_path))[0]
    idx,               \* enumerate index of the for loop
    lod,               \* the loop's lod variable
    mesh,              \* the mesh handed to upload_mesh
    bucket,            \* the S3 bucket: a function from keys to bodies
    put_log,           \* the successful put_object calls, in order
    exit_code,         \* the process's exit status
    err_msg,           \* the error message printed before sys.exit(1)
    \* backend/app/main.py: get_tile_presigned_url
    TILE_BUCKET_NAME,  \* the environment variable
    api_response,      \* the last response of the tile route
    \* neuron.py: Neuron.__init__ / load_nodes
    n_pc,              \* position in Neuron.__init__ and in the assembler
    lines,             \* f.readlines()
    line_no,           \* how many lines the for loop has consumed
    nodes,             \* the nodes list
    root_node,         \* self.root_node
    raised,            \* the exception that left the constructor
    \* mesh_generator.py: generate_mesh_sequential_boolean
    current_neuron_mesh, \* the running concatenation, a sequence of primitives
    processed_nodes,   \* the set of processed node ids
    i,                 \* the progress counter
    stack,             \* the call stack of process_node_recursive
    \* mesh_generator.py: create_segment_frustum
    f_pc,              \* position in create_segment_frustum
    node1,
    node2,
    sections,
    frustum_mesh,      \* the returned mesh
    \* neuron.py: Neuron.topo_sort
    t_pc,              \* position in topo_sort
    sorted_nodes,
    seen_ids,
    t_stack,           \* the call stack of add_recurse
    \* mesh_generator_pv.py: generate_mesh_pyvista
    pv_pc,             \* position in generate_mesh_pyvista
    voxel_size_arg,    \* the voxel_size argument
    min_radius,
    voxel_size,        \* the voxel size used
    primitives,        \* create_pyvista_primitives: the primitives list
    pv_processed_nodes, \* create_pyvista_primitives: processed_nodes
    pv_stack,          \* the call stack of its process_node_recursive
    pv_calls,          \* the nodes process_node_recursive was called on
    pv_steps,          \* the pipeline steps run so far, with their outcomes
    primitive_mesh,
    voxel_grid,
    surface,
    final_mesh         \* the value generate_mesh_pyvista returns

lodVars == <<lod_pc, input_glb_path, file_exists, mesh_lod0, base_filename,
             idx, lod, mesh, bucket, put_log, exit_code, err_msg,
             TILE_BUCKET_NAME, api_response>>
neuronVars == <<n_pc, lines, line_no, nodes, root_node, raised,
                current_neuron_mesh, processed_nodes, i, stack>>
frustumVars == <<f_pc, node1, node2, sections, frustum_mesh>>
topoVars == <<t_pc, sorted_nodes, seen_ids, t_stack>>
pvVars == <<pv_pc, voxel_size_arg, min_radius, voxel_size, primitives,
            pv_processed_nodes, pv_stack, pv_calls, pv_steps, primitive_mesh,
            voxel_grid, surface, final_mesh>>
vars == <<lodVars, neuronVars, frustumVars, topoVars, pvVars>>

None == "None"

\* ------------------------------------------------------------------------
\* Small helpers
\* ------------------------------------------------------------------------

Last(s) == s[Len(s)]

Front(s) == SubSeq(s, 1, Len(s) - 1)

Range(s) == {s[k] : k \in 1..Len(s)}

DigitChar == <<"0", "1", "2", "3", "4", "5", "6", "7", "8", "9">>

RECURSIVE IntToStr(_)
\* str(n) of a non-negative int, as the f-strings format it
IntToStr(n) ==
    IF n < 10 THEN <<DigitChar[n + 1]>>
    ELSE IntToStr(n \div 10) \o <<DigitChar[(n % 10) + 1]>>

\* the positions of token c in string s
Positions(s, c) == {k \in 1..Len(s) : s[k] = c}

Max(S) == CHOOSE x \in S : \A y \in S : y <= x

Min(S) == CHOOSE x \in S : \A y \in S : x <= y

\* ------------------------------------------------------------------------
\* process_sphere.py
\* ------------------------------------------------------------------------

LOD_TARGET_FACES == <<4096, 2048, 1024, 512>>

\* the --input-file arguments tried
InputPaths ==
    { <<"sphere", ".", "glb">>,
      <<"source_assets", "/", "sphere", ".", "glb">>,
      <<"out", "/", "v1", "/", "neuron", ".", "v2", ".", "glb">>,
      <<"data", ".", "d", "/", "mesh">>,
      <<".", "hidden", ".", "glb">> }

\* os.path.basename: what follows the last "/"
basename(p) ==
    IF Positions(p, "/") = {} THEN p
    ELSE SubSeq(p, Max(Positions(p, "/")) + 1, Len(p))

\* os.path.splitext(name)[0]: the name up to its last ".", unless only
\* dots precede that "." (a leading dot starts no extension)
splitext_root(name) ==
    IF Positions(name, ".") = {} THEN name
    ELSE LET d == Max(Positions(name, "."))
         IN IF \E k \in 1..(d - 1) : name[k] # "." THEN SubSeq(name, 1, d - 1)
            ELSE name

\* the key upload_mesh writes to
upload_key(lodN, base) ==
    <<"lod_">> \o IntToStr(lodN) \o <<"/">> \o base \o <<".", "glb">>

\* the mesh trimesh.load_mesh returns for a path
LoadedMesh(p) == [kind |-> "loaded", path |-> p]

\* the mesh simplify_quadric_decimation returns
simplify_mesh(initial_mesh, target_faces) ==
    [kind |-> "simplified", of |-> initial_mesh, face_count |-> target_faces]

\* variant: the enumerate index used without the increment
lod_of_index_unshifted(k) == k

\* line 66: lod += 1 on the enumerate index
lod_of_index(k) == k + 1

\* s3_client.put_object
put_object(b, key, body) ==
    [k \in (DOMAIN b) \cup {key} |-> IF k = key THEN body ELSE b[k]]

EmptyBucket == [k \in {} |-> None]

\* no request has been answered yet
NoResponse == [status |-> 0]

LodIdle ==
    /\ lod_pc = "idle"
    /\ input_glb_path = <<>>
    /\ file_exists = FALSE
    /\ mesh_lod0 = None
    /\ base_filename = None
    /\ idx = 0
    /\ lod = 0
    /\ mesh = None
    /\ bucket = EmptyBucket
    /\ put_log = <<>>
    /\ exit_code = None
    /\ err_msg = None
    /\ TILE_BUCKET_NAME = ""
    /\ api_response = NoResponse

LodInit ==
    /\ lod_pc = "start"
    /\ input_glb_path \in InputPaths
    /\ file_exists \in BOOLEAN
    /\ mesh_lod0 = None
    /\ base_filename = None
    /\ idx = 0
    /\ lod = 0
    /\ mesh = None
    /\ bucket = EmptyBucket
    /\ put_log = <<>>
    /\ exit_code = None
    /\ err_msg = None
    /\ TILE_BUCKET_NAME \in {"", "digitalneuron-tiles"}
    /\ api_response = NoResponse

apiVars == <<TILE_BUCKET_NAME, api_response>>

\* variant: the error is printed and the run carries on with the next
\* decimation
print_and_continue(message) ==
    /\ lod_pc' = "simplify"
    /\ exit_code' = 1
    /\ err_msg' = message

\* print(error) and sys.exit(1)
Exit1(message) ==
    /\ lod_pc' = "exited"
    /\ exit_code' = 1
    /\ err_msg' = message

\* lines 49-51: the existence check
CheckExists ==
    /\ lod_pc = "start"
    /\ IF file_exists
       THEN /\ lod_pc' = "load"
            /\ UNCHANGED <<exit_code, err_msg>>
       ELSE Exit1("Error: File not found")
    /\ UNCHANGED <<input_glb_path, file_exists, mesh_lod0, base_filename, idx,
                   lod, mesh, bucket, put_log, apiVars>>

\* lines 55-62: load the mesh and derive base_filename
LoadMesh ==
    /\ lod_pc = "load"
    /\ \E ok \in BOOLEAN :
        IF ok
        THEN /\ mesh_lod0' = LoadedMesh(input_glb_path)
             /\ base_filename' = splitext_root(basename(input_glb_path))
             /\ lod_pc' = "upload0"
             /\ UNCHANGED <<exit_code, err_msg>>
        ELSE /\ Exit1("Error loading mesh")
             /\ UNCHANGED <<mesh_lod0, base_filename>>
    /\ UNCHANGED <<input_glb_path, file_exists, idx, lod, mesh, bucket, put_log,
                   apiVars>>

UploadOutcomes == {"ok", "NoCredentialsError", "ClientError", "Exception"}

\* the message upload_mesh prints for a failure
upload_error(outcome) ==
    IF outcome = "NoCredentialsError" THEN "Error: AWS credentials not found."
    ELSE IF outcome = "ClientError" THEN "Error uploading to S3"
    ELSE "An unexpected error occured during upload"

\* one record of put_log per successful put_object call
PutRecord(lodN, key, body) == [lod |-> lodN, key |-> key, body |-> body]

\* line 63: upload_mesh(mesh_lod0, 0, base_filename, bucket_name), then the
\* header of the for loop
UploadLod0 ==
    /\ lod_pc = "upload0"
    /\ \E outcome \in UploadOutcomes :
        IF outcome = "ok"
        THEN /\ bucket' = put_object(bucket, upload_key(0, base_filename), mesh_lod0)
             /\ put_log' = Append(put_log,
                    PutRecord(0, upload_key(0, base_filename), mesh_lod0))
             /\ idx' = 0
             /\ IF 0 < Len(LOD_TARGET_FACES)
                THEN /\ lod' = lod_of_index(0)
                     /\ lod_pc' = "simplify"
                ELSE /\ lod' = lod
                     /\ lod_pc' = "done"
             /\ UNCHANGED <<exit_code, err_msg>>
        ELSE /\ Exit1(upload_error(outcome))
             /\ UNCHANGED <<bucket, put_log, idx, lod>>
    /\ UNCHANGED <<input_glb_path, file_exists, mesh_lod0, base_filename, mesh,
                   apiVars>>

\* line 68: upload_mesh(mesh, lod, base_filename, bucket_name), then the next
\* iteration's header (or the end of the loop)
UploadLod ==
    /\ lod_pc = "upload"
    /\ \E outcome \in UploadOutcomes :
        IF outcome = "ok"
        THEN /\ bucket' = put_object(bucket, upload_key(lod, base_filename), mesh)
             /\ put_log' = Append(put_log,
                    PutRecord(lod, upload_key(lod, base_filename), mesh))
             /\ idx' = idx + 1
             /\ IF idx' < Len(LOD_TARGET_FACES)
                THEN /\ lod' = lod_of_index(idx')
                     /\ lod_pc' = "simplify"
                ELSE /\ lod' = lod
                     /\ lod_pc' = "done"
             /\ UNCHANGED <<exit_code, err_msg>>
        ELSE /\ Exit1(upload_error(outcome))
             /\ UNCHANGED <<bucket, put_log, idx, lod>>
    /\ UNCHANGED <<input_glb_path, file_exists, mesh_lod0, base_filename, mesh,
                   apiVars>>

\* variant: each LOD decimated from the previous LOD's mesh
decimation_input_chained == IF idx = 0 THEN mesh_lod0 ELSE mesh

\* line 67: the first argument of simplify_mesh
decimation_input == mesh_lod0

\* line 67: mesh = simplify_mesh(mesh_lod0, target_faces)
SimplifyMesh ==
    /\ lod_pc = "simplify"
    /\ \E ok \in BOOLEAN :
        IF ok
        THEN /\ mesh' = simplify_mesh(decimation_input, LOD_TARGET_FACES[idx + 1])
             /\ lod_pc' = "upload"
             /\ UNCHANGED <<exit_code, err_msg>>
        ELSE /\ Exit1("Error simplifying mesh")
             /\ UNCHANGED mesh
    /\ UNCHANGED <<input_glb_path, file_exists, mesh_lod0, base_filename, idx,
                   lod, bucket, put_log, apiVars>>

\* ------------------------------------------------------------------------
\* backend/app/main.py
\* ------------------------------------------------------------------------

URL_EXPIRATION == 3600

\* the largest lod a request is tried with
MaxApiLod == 5

\* the tile_key path parameters tried (a path parameter holds no "/")
TileKeys ==
    { <<"sphere">>, <<"neuron", ".", "v2">>, <<"mesh">>, <<".", "hidden">>,
      <<"cube">> }

\* s3_object_key = f"lod_{lod}/{tile_key}.glb"
s3_object_key(lodN, tile_key) ==
    <<"lod_">> \o IntToStr(lodN) \o <<"/">> \o tile_key \o <<".", "glb">>

\* GET /api/v1/tile/{lod}/{tile_key}
get_tile_presigned_url ==
    /\ lod_pc # "idle"
    /\ \E lodN \in (-1)..MaxApiLod, tile_key \in TileKeys,
          outcome \in {"ok", "ClientError", "Exception"} :
        api_response' =
            IF lodN < 0 THEN [status |-> 422]
            ELSE IF TILE_BUCKET_NAME = "" THEN [status |-> 500]
            ELSE IF outcome = "ok"
                 THEN [status |-> 200,
                       tileUrl |-> [Bucket |-> TILE_BUCKET_NAME,
                                    Key |-> s3_object_key(lodN, tile_key),
                                    ExpiresIn |-> URL_EXPIRATION]]
            ELSE IF outcome = "ClientError" THEN [status |-> 404]
            ELSE [status |-> 500]
    /\ UNCHANGED <<lod_pc, input_glb_path, file_exists, mesh_lod0, base_filename,
                   idx, lod, mesh, bucket, put_log, exit_code, err_msg,
                   TILE_BUCKET_NAME>>

\* ------------------------------------------------------------------------
\* neuron.py
\*
\* A line of the trace is a sequence of tokens: " " and "\n" are whitespace,
\* every other token is a maximal run of non-whitespace characters.
\* Coordinates are counted in units of 5e-7 (half the degeneracy tolerance of
\* create_segment_frustum), radii in the same units.
\* ------------------------------------------------------------------------

\* the most lines a trace is tried with
MaxLines == 3

Whitespace == {" ", "\n"}

\* the tokens that begin with "#"
HashTokens == {"#", "#soma"}

\* int(token) for the tokens int() accepts
IntOf == [t \in {"-1", "0", "1", "2", "3"} |->
            CASE t = "-1" -> -1 [] t = "0" -> 0 [] t = "1" -> 1
              [] t = "2" -> 2 [] t = "3" -> 3]

\* float(token) of a coordinate, in units of 5e-7
CoordOf == [t \in {"0.0", "5e-07", "1e-06", "4e-06", "8e-06", "1.2e-05"} |->
            CASE t = "0.0" -> 0 [] t = "5e-07" -> 1 [] t = "1e-06" -> 2
              [] t = "4e-06" -> 8 [] t = "8e-06" -> 16 [] t = "1.2e-05" -> 24]

\* float(token) of a radius, in units of 5e-7
RadiusOf == [t \in {"0.0", "1e-06", "1.5e-06", "0.05", "0.5", "1.0", "1.5",
                    "2.0", "4.0"} |->
            CASE t = "0.0" -> 0 [] t = "1e-06" -> 2 [] t = "1.5e-06" -> 3
              [] t = "0.05" -> 100000 [] t = "0.5" -> 1000000
              [] t = "1.0" -> 2000000 [] t = "1.5" -> 3000000
              [] t = "2.0" -> 4000000 [] t = "4.0" -> 8000000]

\* the node ids the records of a trace are tried with, and the radius each
\* carries
IdToks == <<"1", "2", "3">>

RadiusToks == <<"2.0", "1.0", "0.5">>

\* where the node records of a trace lie: "spread" puts node k at x = 8k
\* units, "stacked" puts node k at x = k - 1 units, so that nodes 1 and 2 and
\* nodes 2 and 3 are within the tolerance of one another
Layouts == {"spread", "stacked"}

XTok(layout, k) ==
    IF layout = "spread" THEN <<"4e-06", "8e-06", "1.2e-05">>[k]
    ELSE <<"0.0", "5e-07", "1e-06">>[k]

\* the record line "id 1 x 0.0 0.0 r parent_id\n"
DataLine(layout, k, parent) ==
    <<IdToks[k], " ", "1", " ", XTok(layout, k), " ", "0.0", " ", "0.0", " ",
      RadiusToks[k], " ", parent, "\n">>

ParentToks == {"-1"} \cup Range(IdToks)

\* the lines a trace is made of
TraceLines(layout) ==
    {DataLine(layout, k, parent) : k \in 1..Len(IdToks), parent \in ParentToks}
    \cup { <<"\n">>,
           <<"#", " ", "soma", "\n">>,
           <<" ", "#soma", "\n">>,
           <<"2", " ", "3", " ", "0.0", " ", "0.0", " ", "0.0", " ", "1.0", "\n">>,
           <<" ", "3", " ", "3", " ", "0.0", " ", "0.0", " ", "1.0", " ", "2">>,
           <<"1", " ", "1", " ", "0.0", " ", "0.0", " ", "0.0", " ", "1.0", " ",
             "-1", " ", "#soma", "\n">>,
           <<"id", " ", "type", " ", "x", " ", "y", " ", "z", " ", "r", " ",
             "parent", "\n">> }

\* the traces of at most n lines
TracesUpTo(layout, n) ==
    UNION {[1..m -> TraceLines(layout)] : m \in 0..n}

\* str.strip()
strip(line) ==
    LET body == {k \in 1..Len(line) : line[k] \notin Whitespace}
    IN IF body = {} THEN <<>>
       ELSE SubSeq(line, CHOOSE a \in body : \A k \in body : a <= k, Max(body))

\* str.startswith("#")
startswith_hash(line) == Len(line) > 0 /\ line[1] \in HashTokens

RECURSIVE split(_)
\* str.split(): the runs of non-whitespace, in order
split(line) ==
    IF line = <<>> THEN <<>>
    ELSE IF Head(line) \in Whitespace THEN split(Tail(line))
    ELSE <<Head(line)>> \o split(Tail(line))

\* the number of fields a record line must have
FieldCount == 7

\* line 36: len(parts) != 7
wrong_field_count(parts) == Len(parts) # FieldCount

\* int() and float() accept every field of the record
Convertible(parts) ==
    /\ parts[1] \in DOMAIN IntOf
    /\ parts[2] \in DOMAIN IntOf
    /\ parts[3] \in DOMAIN CoordOf
    /\ parts[4] \in DOMAIN CoordOf
    /\ parts[5] \in DOMAIN CoordOf
    /\ parts[6] \in DOMAIN RadiusOf
    /\ parts[7] \in DOMAIN IntOf

\* lines 38-46: Node(int(parts[0]), ..., int(parts[6]))
Node(parts) ==
    [id |-> IntOf[parts[1]], type_id |-> IntOf[parts[2]],
     x |-> CoordOf[parts[3]], y |-> CoordOf[parts[4]], z |-> CoordOf[parts[5]],
     r |-> RadiusOf[parts[6]], parent_id |-> IntOf[parts[7]]]

NoNode == [id |-> 0, type_id |-> 0, x |-> 0, y |-> 0, z |-> 0, r |-> 0,
           parent_id |-> 0]

NoError == [type |-> "none"]

\* ValueError(f"Line does not contain 7 fields: '{line}'")
FieldCountError(line) ==
    [type |-> "ValueError", msg |-> "Line does not contain 7 fields",
     line |-> line]

\* the ValueError int() or float() raises
ConversionError == [type |-> "ValueError", msg |-> "invalid literal"]

\* ValueError(f"Root node count != 1; root nodes: {root_nodes}")
RootCountError(root_nodes) ==
    [type |-> "ValueError", msg |-> "Root node count != 1",
     root_nodes |-> root_nodes]

UniqueIdError ==
    [type |-> "ValueError", msg |-> "Nodes do not have unique IDs."]

\* Neuron.get_children
get_children(ns, node) ==
    LET is_child(n) == n.parent_id = node.id
    IN SelectSeq(ns, is_child)

\* lines 54-55 of get_root: the nodes whose parent_id is no node's id
root_nodes_of(ns) ==
    LET node_ids == {ns[k].id : k \in 1..Len(ns)}
        is_root(n) == n.parent_id \notin node_ids
    IN SelectSeq(ns, is_root)

\* variant: only an empty root list is rejected
root_count_at_least_one(root_nodes) == Len(root_nodes) < 1

\* line 56: len(root_nodes) != 1
root_count_wrong(root_nodes) == Len(root_nodes) # 1

\* variant: a constructor without the unique-id check
ids_never_checked(ns) == FALSE

\* line 24: len(node_ids) != len(set(node_ids))
has_duplicate_ids(ns) ==
    Len(ns) # Cardinality({ns[k].id : k \in 1..Len(ns)})

NeuronIdle ==
    /\ n_pc = "idle"
    /\ lines = <<>>
    /\ line_no = 0
    /\ nodes = <<>>
    /\ root_node = NoNode
    /\ raised = NoError
    /\ current_neuron_mesh = <<>>
    /\ processed_nodes = {}
    /\ i = 0
    /\ stack = <<>>

\* Neuron(swc_filepath) is called on a trace
NeuronInit ==
    /\ n_pc = "load_nodes"
    /\ \E layout \in Layouts : lines \in TracesUpTo(layout, MaxLines)
    /\ line_no = 0
    /\ nodes = <<>>
    /\ root_node = NoNode
    /\ raised = NoError
    /\ current_neuron_mesh = <<>>
    /\ processed_nodes = {}
    /\ i = 0
    /\ stack = <<>>

assemblerVars == <<current_neuron_mesh, processed_nodes, i, stack>>

\* raise: the exception leaves Neuron.__init__, no Neuron object exists
Raise(e) ==
    /\ n_pc' = "raised"
    /\ raised' = e

\* lines 31-47: one iteration of load_nodes' loop
ReadLine ==
    /\ n_pc = "load_nodes"
    /\ line_no < Len(lines)
    /\ LET line == strip(lines[line_no + 1])
           parts == split(line)
       IN IF startswith_hash(line)
          THEN UNCHANGED <<n_pc, nodes, raised>>
          ELSE IF wrong_field_count(parts)
          THEN Raise(FieldCountError(line)) /\ UNCHANGED nodes
          ELSE IF ~Convertible(parts)
          THEN Raise(ConversionError) /\ UNCHANGED nodes
          ELSE /\ nodes' = Append(nodes, Node(parts))
               /\ UNCHANGED <<n_pc, raised>>
    /\ line_no' = line_no + 1
    /\ UNCHANGED <<lines, root_node, assemblerVars>>

\* lines 21-22 and 53-58: load_nodes returns, self.root_node = get_root(nodes)
get_root ==
    /\ n_pc = "load_nodes"
    /\ line_no = Len(lines)
    /\ LET root_nodes == root_nodes_of(nodes)
       IN IF root_count_wrong(root_nodes)
          THEN Raise(RootCountError(root_nodes)) /\ UNCHANGED root_node
          ELSE /\ root_node' = root_nodes[1]
               /\ n_pc' = "check_ids"
               /\ UNCHANGED raised
    /\ UNCHANGED <<lines, line_no, nodes, assemblerVars>>

\* lines 23-25: the unique-id check that ends __init__
check_unique_ids ==
    /\ n_pc = "check_ids"
    /\ IF has_duplicate_ids(nodes)
       THEN Raise(UniqueIdError)
       ELSE n_pc' = "constructed" /\ UNCHANGED raised
    /\ UNCHANGED <<lines, line_no, nodes, root_node, assemblerVars>>

\* a Neuron object exists: __init__ has returned
Constructed == n_pc \in {"constructed", "assembling", "assembled"}

\* ------------------------------------------------------------------------
\* neuron.py: Neuron.topo_sort
\* ------------------------------------------------------------------------

TopoIdle ==
    /\ t_pc = "idle"
    /\ sorted_nodes = <<>>
    /\ seen_ids = {}
    /\ t_stack = <<>>

Reverse(s) == [k \in 1..Len(s) |-> s[Len(s) + 1 - k]]

\* variant: the children are taken last in the file first
AddRecurseFrameReversed(node) ==
    [node |-> node, children |-> Reverse(get_children(nodes, node)), taken |-> 0]

\* a frame of add_recurse: its node, the list self.get_children(node) and how
\* many of its items the for loop has taken
AddRecurseFrame(node) ==
    [node |-> node, children |-> get_children(nodes, node), taken |-> 0]

\* lines 61-62 and 72: sorted_nodes, seen_ids, then add_recurse(self.root_node)
topo_sort ==
    /\ Constructed
    /\ t_pc = "idle"
    /\ sorted_nodes' = <<root_node>>
    /\ seen_ids' = {root_node.id}
    /\ t_stack' = <<AddRecurseFrame(root_node)>>
    /\ t_pc' = "add_recurse"

\* lines 66-71: one iteration of add_recurse's for loop
add_recurse ==
    /\ t_pc = "add_recurse"
    /\ t_stack # <<>>
    /\ LET frame == Last(t_stack)
       IN /\ frame.taken < Len(frame.children)
          /\ LET child_node == frame.children[frame.taken + 1]
                 advanced == [frame EXCEPT !.taken = @ + 1]
             IN IF child_node.id \in seen_ids
                THEN /\ t_stack' = Append(Front(t_stack), advanced)
                     /\ UNCHANGED <<sorted_nodes, seen_ids>>
                ELSE /\ seen_ids' = seen_ids \cup {child_node.id}
                     /\ sorted_nodes' = Append(sorted_nodes, child_node)
                     /\ t_stack' = Append(Front(t_stack), advanced)
                                      \o <<AddRecurseFrame(child_node)>>
    /\ UNCHANGED t_pc

\* the for loop is exhausted: add_recurse returns; the outermost return is
\* followed by line 73, return sorted_nodes
add_recurse_return ==
    /\ t_pc = "add_recurse"
    /\ t_stack # <<>>
    /\ Last(t_stack).taken = Len(Last(t_stack).children)
    /\ t_stack' = Front(t_stack)
    /\ t_pc' = IF Len(t_stack) = 1 THEN "returned" ELSE t_pc
    /\ UNCHANGED <<sorted_nodes, seen_ids>>

\* ------------------------------------------------------------------------
\* mesh_generator.py: create_segment_frustum
\*
\* A vertex is kept as its construction: the end it belongs to, that end's
\* centre and radius, and the index of its angle (0 for the cap centre,
\* 1..sections for the ring).
\* ------------------------------------------------------------------------

\* sections=16, the default every caller uses
DefaultSections == 16

\* 1e-6, in units of 5e-7
DegeneracyTolerance == 2

\* the largest section count tried besides the default
MaxSections == 4

\* the largest coordinate tried, in units of 5e-7
MaxCoord == 3

\* np.linalg.norm(p2 - p1) squared
length_squared(n1, n2) ==
    (n2.x - n1.x) * (n2.x - n1.x) + (n2.y - n1.y) * (n2.y - n1.y)
        + (n2.z - n1.z) * (n2.z - n1.z)

\* variant: only a zero length is treated as degenerate
only_exact_coincidence(n1, n2) == length_squared(n1, n2) = 0

\* line 14: length < 1e-6
is_degenerate(n1, n2) ==
    length_squared(n1, n2) < DegeneracyTolerance * DegeneracyTolerance

\* lines 31-37: the centre of an end, then its ring
end_vertices(end, n, secs) ==
    <<[end |-> end, centre |-> <<n.x, n.y, n.z>>, radius |-> n.r, angle |-> 0]>>
    \o [k \in 1..secs |->
          [end |-> end, centre |-> <<n.x, n.y, n.z>>, radius |-> n.r,
           angle |-> k]]

\* variant: an iteration that appends the side panel only
faces_without_caps(k, secs) ==
    LET v1 == 1 + k
        v2 == 1 + ((k + 1) % secs)
        v3 == 1 + secs + 1 + ((k + 1) % secs)
        v4 == 1 + secs + 1 + k
    IN << <<v1, v2, v4>>, <<v2, v3, v4>> >>

\* lines 46-54: the four faces of one iteration of the face loop
faces_of_section(k, secs) ==
    LET cap1_center_idx == 0
        cap1_start_idx == 1
        cap2_center_idx == 1 + secs
        cap2_start_idx == 1 + secs + 1
        v1 == cap1_start_idx + k
        v2 == cap1_start_idx + ((k + 1) % secs)
        v3 == cap2_start_idx + ((k + 1) % secs)
        v4 == cap2_start_idx + k
    IN << <<v1, v2, v4>>, <<v2, v3, v4>>,
          <<cap1_center_idx, v2, v1>>, <<cap2_center_idx, v4, v3>> >>

RECURSIVE face_loop(_, _)
\* for i in range(sections): the faces list from iteration k on
face_loop(k, secs) ==
    IF k >= secs THEN <<>>
    ELSE faces_of_section(k, secs) \o face_loop(k + 1, secs)

\* create_segment_frustum(node1, node2, sections); an icosphere's radius is
\* (r1 + r2)/2, kept as r1 + r2 in half units
create_segment_frustum(n1, n2, secs) ==
    IF is_degenerate(n1, n2)
    THEN [kind |-> "icosphere", subdivisions |-> 2, radius |-> n1.r + n2.r]
    ELSE [kind |-> "frustum",
          vector_norm |-> IF length_squared(n1, n2) = 0 THEN "nan" ELSE "unit",
          vertices |-> end_vertices(1, n1, secs) \o end_vertices(2, n2, secs),
          faces |-> face_loop(0, secs)]

FrustumIdle ==
    /\ f_pc = "idle"
    /\ node1 = NoNode
    /\ node2 = NoNode
    /\ sections = 0
    /\ frustum_mesh = None

\* the nodes create_segment_frustum is tried on
FrustumNodes ==
    [id : {1}, type_id : {1}, x : 0..MaxCoord, y : {0, 1}, z : {0},
     r : {0, 1, 4}, parent_id : {-1}]

FrustumInit ==
    /\ f_pc = "call"
    /\ node1 \in FrustumNodes
    /\ node2 \in FrustumNodes
    /\ sections \in (3..MaxSections) \cup {DefaultSections}
    /\ frustum_mesh = None

\* the call and its return
CallFrustum ==
    /\ f_pc = "call"
    /\ frustum_mesh' = create_segment_frustum(node1, node2, sections)
    /\ f_pc' = "returned"
    /\ UNCHANGED <<node1, node2, sections>>

\* ------------------------------------------------------------------------
\* mesh_generator.py: generate_mesh_sequential_boolean
\*
\* The running mesh is the sequence of the primitives concatenated so far.
\* ------------------------------------------------------------------------

\* trimesh.primitives.Sphere(radius=node.r, center=(node.x, node.y, node.z))
Sphere(node) ==
    [kind |-> "Sphere", radius |-> node.r, center |-> <<node.x, node.y, node.z>>]

\* a frame of process_node_recursive: its parent_node, its children list and
\* how many of them the for loop has taken
Frame(parent_node) ==
    [parent_node |-> parent_node,
     children |-> get_children(nodes, parent_node),
     taken |-> 0]

\* lines 63-71 and 92: the root sphere, then process_node_recursive(root_node)
StartAssemble ==
    /\ n_pc = "constructed"
    /\ current_neuron_mesh' = <<Sphere(root_node)>>
    /\ processed_nodes' = {root_node.id}
    /\ i' = 2
    /\ stack' = <<Frame(root_node)>>
    /\ n_pc' = "assembling"
    /\ UNCHANGED <<lines, line_no, nodes, root_node, raised>>

\* variant: every segment built from the root
segment_from_root(parent_node, child_node) ==
    create_segment_frustum(root_node, child_node, DefaultSections)

\* line 86: segment_frustum = create_segment_frustum(parent_node, child_node)
segment_frustum(parent_node, child_node) ==
    create_segment_frustum(parent_node, child_node, DefaultSections)

\* line 79: child_node.id in processed_nodes
already_processed(child_node) == child_node.id \in processed_nodes

\* lines 78-89: one iteration of the for loop over children
VisitChild ==
    /\ n_pc = "assembling"
    /\ stack # <<>>
    /\ LET frame == Last(stack)
       IN /\ frame.taken < Len(frame.children)
          /\ LET child_node == frame.children[frame.taken + 1]
                 advanced == [frame EXCEPT !.taken = @ + 1]
             IN IF already_processed(child_node)
                THEN /\ stack' = Append(Front(stack), advanced)
                     /\ UNCHANGED <<current_neuron_mesh, processed_nodes, i>>
                ELSE /\ processed_nodes' = processed_nodes \cup {child_node.id}
                     /\ current_neuron_mesh' =
                            current_neuron_mesh
                            \o <<segment_frustum(frame.parent_node, child_node)>>
                            \o <<Sphere(child_node)>>
                     /\ i' = i + 1
                     /\ stack' = Append(Front(stack), advanced)
                                    \o <<Frame(child_node)>>
    /\ UNCHANGED <<n_pc, lines, line_no, nodes, root_node, raised>>

\* the for loop is exhausted: process_node_recursive returns; the outermost
\* return is followed by line 93, return current_neuron_mesh
ReturnCall ==
    /\ n_pc = "assembling"
    /\ stack # <<>>
    /\ Last(stack).taken = Len(Last(stack).children)
    /\ stack' = Front(stack)
    /\ n_pc' = IF Len(stack) = 1 THEN "assembled" ELSE n_pc
    /\ UNCHANGED <<lines, line_no, nodes, root_node, raised,
                   current_neuron_mesh, processed_nodes, i>>

\* ------------------------------------------------------------------------
\* mesh_generator_pv.py
\*
\* Radii are counted in units of 5e-7, voxel sizes in units of 2.5e-7, so
\* that the factor 1.5 is 3 voxel-size units per radius unit.
\* ------------------------------------------------------------------------

\* 1.5, in voxel-size units per radius unit
DEFAULT_VOXEL_SIZE_FACTOR == 3

\* 0.1, in voxel-size units
MIN_VOXEL_SIZE == 400000

\* 5.0, in voxel-size units
MAX_VOXEL_SIZE == 20000000

DEFAULT_SECTIONS == 8

SMOOTHING_ITERATIONS == 10

\* the literal 1e-6 of lines 57, 65 and 137, in radius and coordinate units
PvTolerance == 2

\* no value: None
NoMesh == [kind |-> "None"]

\* voxel_size=None, the default
NoVoxelSize == [given |-> FALSE, value |-> 0]

\* the runs tried: a layout of the nodes, the radii of nodes 1, 2 and 3, and
\* the voxel_size argument (0.05 where one is given)
PvConfigs ==
    { [layout |-> "spread", radii |-> RadiusToks, voxel_size |-> NoVoxelSize],
      [layout |-> "stacked", radii |-> RadiusToks, voxel_size |-> NoVoxelSize],
      [layout |-> "spread", radii |-> <<"0.05", "1.0", "1.0">>,
       voxel_size |-> NoVoxelSize],
      [layout |-> "spread", radii |-> <<"4.0", "4.0", "4.0">>,
       voxel_size |-> NoVoxelSize],
      [layout |-> "spread", radii |-> <<"0.0", "1e-06", "0.0">>,
       voxel_size |-> NoVoxelSize],
      [layout |-> "spread", radii |-> <<"1.5e-06", "0.0", "1.0">>,
       voxel_size |-> NoVoxelSize],
      [layout |-> "spread", radii |-> RadiusToks,
       voxel_size |-> [given |-> TRUE, value |-> 200000]] }

\* the record line "id 1 x 0.0 0.0 r parent_id\n" of a run
PvDataLine(c, k, parent) ==
    <<IdToks[k], " ", "1", " ", XTok(c.layout, k), " ", "0.0", " ", "0.0", " ",
      c.radii[k], " ", parent, "\n">>

\* the SWC files of at most n record lines
PvTracesUpTo(c, n) ==
    LET record_lines == {PvDataLine(c, k, parent) :
                            k \in 1..Len(IdToks), parent \in ParentToks}
    IN UNION {[1..m -> record_lines] : m \in 0..n}

PvIdle ==
    /\ pv_pc = "idle"
    /\ voxel_size_arg = NoVoxelSize
    /\ min_radius = 0
    /\ voxel_size = 0
    /\ primitives = <<>>
    /\ pv_processed_nodes = {}
    /\ pv_stack = <<>>
    /\ pv_calls = <<>>
    /\ pv_steps = <<>>
    /\ primitive_mesh = NoMesh
    /\ voxel_grid = NoMesh
    /\ surface = NoMesh
    /\ final_mesh = NoMesh

\* generate_mesh_pyvista(swc_filepath, voxel_size) is called: line 134,
\* Neuron(swc_filepath), comes first
PvInit ==
    /\ pv_pc = "neuron"
    /\ \E c \in PvConfigs :
          /\ voxel_size_arg = c.voxel_size
          /\ lines \in PvTracesUpTo(c, MaxLines)
    /\ n_pc = "load_nodes"
    /\ line_no = 0
    /\ nodes = <<>>
    /\ root_node = NoNode
    /\ raised = NoError
    /\ current_neuron_mesh = <<>>
    /\ processed_nodes = {}
    /\ i = 0
    /\ stack = <<>>
    /\ min_radius = 0
    /\ voxel_size = 0
    /\ primitives = <<>>
    /\ pv_processed_nodes = {}
    /\ pv_stack = <<>>
    /\ pv_calls = <<>>
    /\ pv_steps = <<>>
    /\ primitive_mesh = NoMesh
    /\ voxel_grid = NoMesh
    /\ surface = NoMesh
    /\ final_mesh = NoMesh

primitiveVars == <<primitives, pv_processed_nodes, pv_stack, pv_calls>>

\* one more entry of pv_steps
Step(name, outcome) == Append(pv_steps, [step |-> name, outcome |-> outcome])

\* return None out of step name
ReturnNone(name, outcome) ==
    /\ pv_pc' = "returned"
    /\ final_mesh' = NoMesh
    /\ pv_steps' = Step(name, outcome)

\* line 137: the radii of the nodes with node.r > 1e-6, in file order
all_radii_of(ns) ==
    LET positive(n) == n.r > PvTolerance
        kept == SelectSeq(ns, positive)
    IN [k \in 1..Len(kept) |-> kept[k].r]

\* variant: the size is only kept from exceeding the maximum
clamp_above_only(size) == Min({MAX_VOXEL_SIZE, size})

\* line 150: max(MIN_VOXEL_SIZE, min(MAX_VOXEL_SIZE, voxel_size))
clamp(size) == Max({MIN_VOXEL_SIZE, Min({MAX_VOXEL_SIZE, size})})

\* lines 148-150: the voxel size used
determine_voxel_size(arg, radius) ==
    IF arg.given THEN arg.value
    ELSE clamp(radius * DEFAULT_VOXEL_SIZE_FACTOR)

\* lines 133-151: the try block around Neuron(swc_filepath) and the radii,
\* then the voxel size
load_and_size ==
    /\ pv_pc = "neuron"
    /\ n_pc \in {"constructed", "raised"}
    /\ IF n_pc = "raised"
       THEN /\ ReturnNone("load", "raise")
            /\ UNCHANGED <<min_radius, voxel_size>>
       ELSE LET all_radii == all_radii_of(nodes)
            IN IF all_radii = <<>>
               THEN /\ ReturnNone("load", "no positive radius")
                    /\ UNCHANGED <<min_radius, voxel_size>>
               ELSE /\ min_radius' = Min(Range(all_radii))
                    /\ voxel_size' =
                          determine_voxel_size(voxel_size_arg, min_radius')
                    /\ pv_steps' = Step("load", "ok")
                    /\ pv_pc' = "primitives"
                    /\ UNCHANGED final_mesh
    /\ UNCHANGED <<voxel_size_arg, primitiveVars, primitive_mesh, voxel_grid,
                   surface>>

\* pv.Sphere(center=(root.x, root.y, root.z), radius=root.r)
soma_sphere(root) ==
    [kind |-> "Sphere", center |-> <<root.x, root.y, root.z>>, radius |-> root.r]

\* a frame of create_pyvista_primitives' process_node_recursive
PvFrame(parent_node) ==
    [parent_node |-> parent_node,
     children |-> get_children(nodes, parent_node),
     taken |-> 0]

\* lines 24-35 and 90 (the call is line 155): the soma sphere, then
\* process_node_recursive(root)
create_pyvista_primitives ==
    /\ pv_pc = "primitives"
    /\ Constructed
    /\ IF root_node = NoNode
       THEN /\ ReturnNone("primitives", "no root")
            /\ UNCHANGED primitiveVars
       ELSE /\ primitives' = <<soma_sphere(root_node)>>
            /\ pv_processed_nodes' = {root_node.id}
            /\ pv_stack' = <<PvFrame(root_node)>>
            /\ pv_calls' = <<root_node>>
            /\ pv_pc' = "process_node_recursive"
            /\ UNCHANGED <<pv_steps, final_mesh>>
    /\ UNCHANGED <<voxel_size_arg, min_radius, voxel_size, primitive_mesh,
                   voxel_grid, surface>>

\* line 57: avg_radius < 1e-6, with avg_radius = (r1 + r2) / 2.0
zero_radius_segment(parent_node, child_node) ==
    parent_node.r + child_node.r < 2 * PvTolerance

\* line 65: np.linalg.norm(p2 - p1) > 1e-6
points_distinct(parent_node, child_node) ==
    length_squared(parent_node, child_node) > PvTolerance * PvTolerance

\* lines 66-67: pv.Line(p1, p2).tube(radius=avg_radius, ...); the radius is
\* kept as r1 + r2 in half units
tube_of(parent_node, child_node) ==
    [kind |-> "tube",
     p1 |-> <<parent_node.x, parent_node.y, parent_node.z>>,
     p2 |-> <<child_node.x, child_node.y, child_node.z>>,
     radius |-> parent_node.r + child_node.r,
     n_sides |-> DEFAULT_SECTIONS,
     capping |-> TRUE]

\* what the tube filter can do: a tube, a tube of no points, an exception
TubeOutcomes == {"tube", "empty", "raise"}

\* lines 42-87: one iteration of the for loop over children
PvVisitChild ==
    /\ pv_pc = "process_node_recursive"
    /\ pv_stack # <<>>
    /\ LET frame == Last(pv_stack)
       IN /\ frame.taken < Len(frame.children)
          /\ LET parent_node == frame.parent_node
                 child_node == frame.children[frame.taken + 1]
                 advanced == [frame EXCEPT !.taken = @ + 1]
             IN IF child_node.id \in pv_processed_nodes
                THEN /\ pv_stack' = Append(Front(pv_stack), advanced)
                     /\ UNCHANGED <<primitives, pv_processed_nodes, pv_calls>>
                ELSE IF zero_radius_segment(parent_node, child_node)
                THEN /\ pv_processed_nodes' =
                            pv_processed_nodes \cup {child_node.id}
                     /\ pv_stack' = Append(Front(pv_stack), advanced)
                     /\ UNCHANGED <<primitives, pv_calls>>
                ELSE /\ \E outcome \in TubeOutcomes :
                            primitives' =
                              IF /\ points_distinct(parent_node, child_node)
                                 /\ outcome = "tube"
                              THEN Append(primitives,
                                          tube_of(parent_node, child_node))
                              ELSE primitives
                     /\ pv_processed_nodes' =
                            pv_processed_nodes \cup {child_node.id}
                     /\ pv_calls' = Append(pv_calls, child_node)
                     /\ pv_stack' = Append(Front(pv_stack), advanced)
                                       \o <<PvFrame(child_node)>>
    /\ UNCHANGED <<pv_pc, voxel_size_arg, min_radius, voxel_size, pv_steps,
                   primitive_mesh, voxel_grid, surface, final_mesh>>

\* the for loop is exhausted: process_node_recursive returns; the outermost
\* return leads to line 92
PvReturnCall ==
    /\ pv_pc = "process_node_recursive"
    /\ pv_stack # <<>>
    /\ Last(pv_stack).taken = Len(Last(pv_stack).children)
    /\ pv_stack' = Front(pv_stack)
    /\ pv_pc' = IF Len(pv_stack) = 1 THEN "merge" ELSE pv_pc
    /\ UNCHANGED <<voxel_size_arg, min_radius, voxel_size, primitives,
                   pv_processed_nodes, pv_calls, pv_steps, primitive_mesh,
                   voxel_grid, surface, final_mesh>>

\* what a library call can do: a mesh, a mesh of no points, an exception
MeshOutcomes == {"ok", "empty", "raise"}

\* lines 92-110, and lines 156-158 of the caller: the empty-list check, then
\* pv.merge(primitives)
merge_primitives ==
    /\ pv_pc = "merge"
    /\ IF primitives = <<>>
       THEN /\ ReturnNone("primitives", "no primitives")
            /\ UNCHANGED primitive_mesh
       ELSE \E outcome \in MeshOutcomes :
              IF outcome = "ok"
              THEN /\ primitive_mesh' = [kind |-> "merged", of |-> primitives]
                   /\ pv_steps' = Step("primitives", "ok")
                   /\ pv_pc' = "voxelize"
                   /\ UNCHANGED final_mesh
              ELSE /\ ReturnNone("primitives", outcome)
                   /\ UNCHANGED primitive_mesh
    /\ UNCHANGED <<voxel_size_arg, min_radius, voxel_size, primitiveVars,
                   voxel_grid, surface>>

\* lines 161-168: pv.voxelize(primitive_mesh, density=voxel_size, ...)
voxelize ==
    /\ pv_pc = "voxelize"
    /\ \E ok \in BOOLEAN :
          IF ok
          THEN /\ voxel_grid' = [kind |-> "voxel_grid", of |-> primitive_mesh,
                                 density |-> voxel_size]
               /\ pv_steps' = Step("voxelize", "ok")
               /\ pv_pc' = "extract_surface"
               /\ UNCHANGED final_mesh
          ELSE /\ ReturnNone("voxelize", "raise")
               /\ UNCHANGED voxel_grid
    /\ UNCHANGED <<voxel_size_arg, min_radius, voxel_size, primitiveVars,
                   primitive_mesh, surface>>

\* lines 171-181: voxel_grid.extract_surface(), then the emptiness check
extract_surface ==
    /\ pv_pc = "extract_surface"
    /\ \E outcome \in MeshOutcomes :
          IF outcome = "ok"
          THEN /\ surface' = [kind |-> "surface", of |-> voxel_grid,
                              smoothed |-> 0]
               /\ pv_steps' = Step("extract_surface", "ok")
               /\ pv_pc' = "smooth"
               /\ UNCHANGED final_mesh
          ELSE /\ ReturnNone("extract_surface", outcome)
               /\ UNCHANGED surface
    /\ UNCHANGED <<voxel_size_arg, min_radius, voxel_size, primitiveVars,
                   primitive_mesh, voxel_grid>>

\* variant: a failed smoothing ends the run like the steps before it
smoothing_failure_aborts ==
    /\ ReturnNone("smooth", "raise")
    /\ UNCHANGED surface

\* lines 188-189: the except clause of the smoothing step, a warning only
smoothing_failure ==
    /\ pv_steps' = Step("smooth", "raise")
    /\ pv_pc' = "convert"
    /\ UNCHANGED <<surface, final_mesh>>

\* lines 184-189: surface.smooth(n_iter=SMOOTHING_ITERATIONS, ..., inplace=True)
smooth ==
    /\ pv_pc = "smooth"
    /\ \E ok \in BOOLEAN :
          IF ok
          THEN /\ surface' = [surface EXCEPT !.smoothed = SMOOTHING_ITERATIONS]
               /\ pv_steps' = Step("smooth", "ok")
               /\ pv_pc' = "convert"
               /\ UNCHANGED final_mesh
          ELSE smoothing_failure
    /\ UNCHANGED <<voxel_size_arg, min_radius, voxel_size, primitiveVars,
                   primitive_mesh, voxel_grid>>

\* lines 193-223: the conversion to Trimesh, the final processing and the
\* return
convert_to_trimesh ==
    /\ pv_pc = "convert"
    /\ \E outcome \in MeshOutcomes, is_volume \in BOOLEAN :
          IF outcome = "ok"
          THEN /\ final_mesh' = [kind |-> "Trimesh", of |-> surface,
                                 fill_holes |-> ~is_volume]
               /\ pv_steps' = Step("convert", "ok")
               /\ pv_pc' = "returned"
          ELSE ReturnNone("convert", outcome)
    /\ UNCHANGED <<voxel_size_arg, min_radius, voxel_size, primitiveVars,
                   primitive_mesh, voxel_grid, surface>>

\* ------------------------------------------------------------------------
\* The LOD pipeline with the tile API beside it
\* ------------------------------------------------------------------------

InitLod == LodInit /\ NeuronIdle /\ FrustumIdle /\ TopoIdle /\ PvIdle

NextLod ==
    \/ (CheckExists /\ UNCHANGED <<neuronVars, frustumVars, topoVars, pvVars>>)
    \/ (LoadMesh /\ UNCHANGED <<neuronVars, frustumVars, topoVars, pvVars>>)
    \/ (UploadLod0 /\ UNCHANGED <<neuronVars, frustumVars, topoVars, pvVars>>)
    \/ (SimplifyMesh /\ UNCHANGED <<neuronVars, frustumVars, topoVars, pvVars>>)
    \/ (UploadLod /\ UNCHANGED <<neuronVars, frustumVars, topoVars, pvVars>>)
    \/ (get_tile_presigned_url /\ UNCHANGED <<neuronVars, frustumVars, topoVars, pvVars>>)

SpecLod == InitLod /\ [][NextLod]_vars

\* the LOD indices of a complete run: 0 and one per target
AllLods == 0..Len(LOD_TARGET_FACES)

\* the keys that hold an object: what the run has published
Published == DOMAIN bucket

\* C1: partial LOD sets are never published: when the run has ended, the
\* LOD objects of all levels 0..N are in storage or none is, and a decimation
\* failure leaves no LOD object of the run in storage.
C1_NoPartialLodSet ==
    /\ lod_pc \in {"done", "exited"} =>
          \/ Published = {}
          \/ Published = {upload_key(n, base_filename) : n \in AllLods}
    /\ err_msg = "Error simplifying mesh" => Published = {}

\* stem is the file name of path without its directory and its extension:
\* path = prefix stem ext, the prefix empty or ending in "/", no "/" in stem
\* or ext, ext empty or one "." and what follows it, and an empty ext only
\* when stem itself ends in no extension
IsStemOf(stem, path) ==
    \E a \in 0..Len(path), b \in 0..Len(path) :
        /\ a <= b
        /\ stem = SubSeq(path, a + 1, b)
        /\ LET prefix == SubSeq(path, 1, a)
               ext == SubSeq(path, b + 1, Len(path))
           IN /\ prefix = <<>> \/ Last(prefix) = "/"
              /\ "/" \notin Range(stem) \cup Range(ext)
              /\ \/ /\ ext = <<>>
                    /\ \A d \in 2..Len(stem) :
                          stem[d] = "." => \A k \in 1..(d - 1) : stem[k] = "."
                 \/ /\ Len(ext) >= 2
                    /\ ext[1] = "."
                    /\ "." \notin Range(Tail(ext))
                    /\ \E k \in 1..Len(stem) : stem[k] # "."

\* C10: the n-th successful upload is LOD n-1; LOD 0 holds the unsimplified
\* loaded mesh and LOD i the mesh simplified to the i-th target; every key is
\* lod_{N}/{base_filename}.glb with base_filename the input's name without
\* directory and extension, which is the key the tile API resolves for
\* (N, base_filename); no two uploads of a run share a key.
C10_LodKeys ==
    /\ \A n \in 1..Len(put_log) :
          LET r == put_log[n]
          IN /\ r.lod = n - 1
             /\ r.lod \in AllLods
             /\ IsStemOf(base_filename, input_glb_path)
             /\ r.key = <<"lod_", DigitChar[r.lod + 1], "/">>
                           \o base_filename \o <<".", "glb">>
             /\ r.key = s3_object_key(r.lod, base_filename)
             /\ bucket[r.key] = r.body
             /\ IF r.lod = 0
                THEN r.body = mesh_lod0 /\ r.body.kind = "loaded"
                ELSE /\ r.body.kind = "simplified"
                     /\ r.body.face_count = LOD_TARGET_FACES[r.lod]
    /\ \A m, n \in 1..Len(put_log) : m # n => put_log[m].key # put_log[n].key
    /\ Published = {put_log[n].key : n \in 1..Len(put_log)}

\* a complete run, and the tile API has resolved the key of its last LOD
C10_AllUploaded ==
    /\ lod_pc = "done"
    /\ Len(put_log) = Len(LOD_TARGET_FACES) + 1
    /\ api_response.status = 200
    /\ api_response.tileUrl.Key = put_log[Len(put_log)].key

\* the run has loaded its mesh
MeshLoaded ==
    lod_pc \in {"upload0", "simplify", "upload", "done"} \/ put_log # <<>>

\* C11: every simplified LOD is the decimation of the LOD 0 mesh itself,
\* never of a previous LOD's output, and mesh_lod0 is the loaded mesh,
\* unmodified, before and after every decimation and upload.
C11_DecimatesLod0 ==
    /\ MeshLoaded => mesh_lod0 = LoadedMesh(input_glb_path)
    /\ lod_pc = "upload" =>
          /\ mesh.kind = "simplified"
          /\ mesh.of = LoadedMesh(input_glb_path)
    /\ \A n \in 2..Len(put_log) :
          /\ put_log[n].body.kind = "simplified"
          /\ put_log[n].body.of = LoadedMesh(input_glb_path)
          /\ put_log[n].body.of = put_log[1].body

\* the last target has been decimated from the LOD 0 mesh after three
\* earlier decimations and four uploads
C11_LastLodFromLod0 ==
    /\ lod_pc = "upload"
    /\ idx = Len(LOD_TARGET_FACES) - 1
    /\ Len(put_log) = Len(LOD_TARGET_FACES)
    /\ mesh.of = mesh_lod0

\* the uploads made so far are those of levels 0, 1, ... in this order, and
\* each level above 0 carries the mesh decimated for that level
UploadsInOrder ==
    /\ Len(put_log) <= Len(LOD_TARGET_FACES) + 1
    /\ \A n \in 1..Len(put_log) :
          /\ put_log[n].lod = n - 1
          /\ n > 1 =>
                /\ put_log[n].body.kind = "simplified"
                /\ put_log[n].body.face_count = LOD_TARGET_FACES[n - 1]

\* a level is uploaded only with its own decimation done just before
DecimationBeforeUpload ==
    lod_pc = "upload" =>
        /\ lod = Len(put_log)
        /\ mesh.kind = "simplified"
        /\ mesh.face_count = LOD_TARGET_FACES[lod]

\* a failure is an exit with status 1, and a run that has reported an
\* error has exited
FailureExits ==
    /\ lod_pc = "exited" => exit_code = 1
    /\ err_msg # None => lod_pc = "exited"

\* after the exit nothing is decimated or uploaded
NothingAfterExit ==
    lod_pc = "exited" =>
        /\ lod_pc' = "exited"
        /\ put_log' = put_log
        /\ bucket' = bucket
        /\ mesh' = mesh
        /\ idx' = idx
        /\ lod' = lod

\* C17: a failure of decimation or upload at level k ends the run at once
\* with exit status 1: afterwards nothing is decimated or uploaded, a failed
\* level is never skipped, and the uploads are those of levels 0, 1, ...
\* in increasing order, each level's decimation preceding its own upload.
C17_FailFast ==
    /\ [](UploadsInOrder /\ DecimationBeforeUpload /\ FailureExits)
    /\ [][NothingAfterExit]_vars

\* the decimation of level 2 failed after levels 0 and 1 were uploaded
C17_FailedAtLevel2 ==
    /\ lod_pc = "exited"
    /\ err_msg = "Error simplifying mesh"
    /\ exit_code = 1
    /\ Len(put_log) = 2
    /\ idx = 1

\* ------------------------------------------------------------------------
\* Neuron(swc_filepath), then generate_mesh_sequential_boolean(neuron)
\* ------------------------------------------------------------------------

InitNeuron == LodIdle /\ NeuronInit /\ FrustumIdle /\ TopoIdle /\ PvIdle

NextNeuron ==
    \/ (ReadLine /\ UNCHANGED <<lodVars, frustumVars, topoVars, pvVars>>)
    \/ (get_root /\ UNCHANGED <<lodVars, frustumVars, topoVars, pvVars>>)
    \/ (check_unique_ids /\ UNCHANGED <<lodVars, frustumVars, topoVars, pvVars>>)
    \/ (StartAssemble /\ UNCHANGED <<lodVars, frustumVars, topoVars, pvVars>>)
    \/ (VisitChild /\ UNCHANGED <<lodVars, frustumVars, topoVars, pvVars>>)
    \/ (ReturnCall /\ UNCHANGED <<lodVars, frustumVars, topoVars, pvVars>>)

SpecNeuron == InitNeuron /\ [][NextNeuron]_vars

\* ------------------------------------------------------------------------
\* Neuron(swc_filepath), then topo_sort()
\* ------------------------------------------------------------------------

InitTopo == LodIdle /\ NeuronInit /\ FrustumIdle /\ TopoIdle /\ PvIdle

NextTopo ==
    \/ (ReadLine /\ UNCHANGED <<lodVars, frustumVars, topoVars, pvVars>>)
    \/ (get_root /\ UNCHANGED <<lodVars, frustumVars, topoVars, pvVars>>)
    \/ (check_unique_ids /\ UNCHANGED <<lodVars, frustumVars, topoVars, pvVars>>)
    \/ (topo_sort /\ UNCHANGED <<lodVars, neuronVars, frustumVars, pvVars>>)
    \/ (add_recurse /\ UNCHANGED <<lodVars, neuronVars, frustumVars, pvVars>>)
    \/ (add_recurse_return
          /\ UNCHANGED <<lodVars, neuronVars, frustumVars, pvVars>>)

SpecTopo == InitTopo /\ [][NextTopo]_vars

\* where node n stands in the file
FilePosition(n) == CHOOSE k \in 1..Len(nodes) : nodes[k] = n

\* the returned list is the depth-first pre-order from the root, children in
\* file order
TopoSortResult ==
    t_pc = "returned" =>
        /\ sorted_nodes[1] = root_node
        /\ \A j, k \in 1..Len(sorted_nodes) :
              sorted_nodes[j].id = sorted_nodes[k].id => j = k
        /\ \A k \in 2..Len(sorted_nodes) :
              \E j \in 1..(k - 1) :
                  sorted_nodes[j].id = sorted_nodes[k].parent_id
        /\ \A k \in 1..Len(sorted_nodes) :
              LET children == get_children(nodes, sorted_nodes[k])
              IN /\ Range(children) \subseteq Range(sorted_nodes)
                 /\ children # <<>> =>
                       /\ k < Len(sorted_nodes)
                       /\ sorted_nodes[k + 1] = children[1]
        /\ \A j, k \in 2..Len(sorted_nodes) :
              (j < k /\ sorted_nodes[j].parent_id = sorted_nodes[k].parent_id)
                  => FilePosition(sorted_nodes[j]) < FilePosition(sorted_nodes[k])

\* topo_sort raises nothing and visits no node twice
TopoSortNoError ==
    t_pc # "idle" =>
        /\ raised = NoError
        /\ Cardinality(seen_ids) = Len(sorted_nodes)
        /\ Len(sorted_nodes) <= Len(nodes)

RECURSIVE PendingItems(_)
\* the items the for loops of the frames of a stack have still to take
PendingItems(frames) ==
    IF frames = <<>> THEN 0
    ELSE Len(Last(frames).children) - Last(frames).taken
         + PendingItems(Front(frames))

\* a bound on the steps topo_sort has still to make: every unseen node may
\* cost a new frame with all its items, every pending item one iteration,
\* every frame one return
TopoWork ==
    (Len(nodes) - Cardinality(seen_ids)) * (Len(nodes) + 2)
    + PendingItems(t_stack) + Len(t_stack)

\* while topo_sort runs, a frame is there for the next step to work on
TopoSortNotStuck ==
    t_pc = "add_recurse" =>
        /\ t_stack # <<>>
        /\ Last(t_stack).taken <= Len(Last(t_stack).children)
        /\ TopoWork > 0

\* every step of topo_sort lowers the bound, which never falls below 0
TopoWorkDecreases ==
    t_pc = "add_recurse" => (TopoWork' < TopoWork /\ TopoWork' >= 0)

\* C15: topo_sort terminates on every constructed Neuron, cycles and
\* self-parent nodes included (every step lowers a natural-number bound on
\* the remaining work, and a running sort can always step); its result
\* starts with the root, holds no node id twice and lists every non-root
\* node after its parent, in depth-first pre-order with children in file
\* order; nothing is raised.
C15_TopoSort ==
    /\ [](TopoSortResult /\ TopoSortNoError /\ TopoSortNotStuck)
    /\ [][TopoWorkDecreases]_vars

\* topo_sort returned root and child for a file that also holds a node that
\* is its own parent
C15_SortedWithSelfParent ==
    /\ t_pc = "returned"
    /\ Len(sorted_nodes) = 2
    /\ \E k \in 1..Len(nodes) : nodes[k].parent_id = nodes[k].id

\* ------------------------------------------------------------------------
\* generate_mesh_pyvista(swc_filepath, voxel_size)
\* ------------------------------------------------------------------------

InitPv == LodIdle /\ PvInit /\ FrustumIdle /\ TopoIdle

NextPv ==
    \/ (ReadLine /\ UNCHANGED <<lodVars, frustumVars, topoVars, pvVars>>)
    \/ (get_root /\ UNCHANGED <<lodVars, frustumVars, topoVars, pvVars>>)
    \/ (check_unique_ids /\ UNCHANGED <<lodVars, frustumVars, topoVars, pvVars>>)
    \/ (load_and_size /\ UNCHANGED <<lodVars, neuronVars, frustumVars, topoVars>>)
    \/ (create_pyvista_primitives
          /\ UNCHANGED <<lodVars, neuronVars, frustumVars, topoVars>>)
    \/ (PvVisitChild /\ UNCHANGED <<lodVars, neuronVars, frustumVars, topoVars>>)
    \/ (PvReturnCall /\ UNCHANGED <<lodVars, neuronVars, frustumVars, topoVars>>)
    \/ (merge_primitives
          /\ UNCHANGED <<lodVars, neuronVars, frustumVars, topoVars>>)
    \/ (voxelize /\ UNCHANGED <<lodVars, neuronVars, frustumVars, topoVars>>)
    \/ (extract_surface
          /\ UNCHANGED <<lodVars, neuronVars, frustumVars, topoVars>>)
    \/ (smooth /\ UNCHANGED <<lodVars, neuronVars, frustumVars, topoVars>>)
    \/ (convert_to_trimesh
          /\ UNCHANGED <<lodVars, neuronVars, frustumVars, topoVars>>)

SpecPv == InitPv /\ [][NextPv]_vars

\* the radii above 1e-6 among the nodes of the file
PositiveRadii == {nodes[k].r : k \in {j \in 1..Len(nodes) : nodes[j].r > 2}}

\* 1.5 times the smallest positive radius, kept within 0.1 and 5.0, in
\* voxel-size units
ClampedEstimate ==
    LET estimate == 3 * Min(PositiveRadii)
    IN IF estimate < 400000 THEN 400000
       ELSE IF estimate > 20000000 THEN 20000000
       ELSE estimate

\* the constructor has returned and the radii have been looked at
RadiiInspected == Constructed /\ pv_pc # "neuron"

\* C12: with no voxel_size argument the voxel size handed to the
\* voxelization is 1.5 times the smallest radius above 1e-6, clamped to
\* [0.1, 5.0]; a neuron with no radius above 1e-6 returns no mesh before any
\* primitive is built or voxelized.
C12_VoxelSize ==
    /\ (RadiiInspected /\ PositiveRadii # {} /\ ~voxel_size_arg.given) =>
          /\ min_radius = Min(PositiveRadii)
          /\ voxel_size = ClampedEstimate
          /\ voxel_size >= 400000
          /\ voxel_size <= 20000000
          /\ voxel_grid # NoMesh => voxel_grid.density = ClampedEstimate
    /\ (RadiiInspected /\ PositiveRadii = {}) =>
          /\ pv_pc = "returned"
          /\ final_mesh = NoMesh
          /\ primitives = <<>>
          /\ pv_calls = <<>>
          /\ primitive_mesh = NoMesh
          /\ voxel_grid = NoMesh
          /\ Len(pv_steps) = 1

\* step name has been run with this outcome
HasStep(name, outcome) ==
    \E k \in 1..Len(pv_steps) : pv_steps[k] = [step |-> name, outcome |-> outcome]

\* step name has been run
Attempted(name) == \E k \in 1..Len(pv_steps) : pv_steps[k].step = name

\* the analytic assembler has not been started
AnalyticNotInvoked ==
    /\ n_pc \notin {"assembling", "assembled"}
    /\ current_neuron_mesh = <<>>
    /\ processed_nodes = {}
    /\ stack = <<>>

\* C13: a failed smoothing never ends the run: once voxelization and
\* surface extraction have succeeded the run goes on to the Trimesh
\* conversion, smoothing raised or not; a failed voxelization or surface
\* extraction (an empty surface included) ends the run with no mesh, and the
\* analytic assembler is never invoked.
C13_SmoothingNotFatal ==
    /\ (HasStep("voxelize", "ok") /\ HasStep("extract_surface", "ok")) =>
          /\ pv_pc \in {"smooth", "convert", "returned"}
          /\ pv_pc # "smooth" => Attempted("smooth")
          /\ pv_pc = "returned" => Attempted("convert")
    /\ HasStep("smooth", "raise") =>
          /\ pv_pc \in {"convert", "returned"}
          /\ Last(pv_steps).step # "smooth" => Last(pv_steps).step = "convert"
          /\ pv_pc = "returned" => Last(pv_steps).step = "convert"
    /\ (\/ HasStep("voxelize", "raise")
        \/ HasStep("extract_surface", "raise")
        \/ HasStep("extract_surface", "empty")) =>
          /\ pv_pc = "returned"
          /\ final_mesh = NoMesh
          /\ ~Attempted("smooth")
          /\ ~Attempted("convert")
    /\ AnalyticNotInvoked

\* smoothing raised and the run still returned a Trimesh
C13_MeshDespiteSmoothingFailure ==
    /\ pv_pc = "returned"
    /\ HasStep("smooth", "raise")
    /\ HasStep("convert", "ok")
    /\ final_mesh # NoMesh

\* the parent-child segments of the file: pairs of positions in nodes
Segments ==
    {pc \in (1..Len(nodes)) \X (1..Len(nodes)) :
        nodes[pc[2]].parent_id = nodes[pc[1]].id}

\* there are segments and each has (r_parent + r_child)/2 < 1e-6
EverySegmentNearZero ==
    /\ Segments # {}
    /\ \A pc \in Segments : nodes[pc[1]].r + nodes[pc[2]].r < 4

\* create_pyvista_primitives has been called and has returned
PrimitivesReturned ==
    /\ Attempted("primitives")
    /\ pv_pc \notin {"primitives", "process_node_recursive", "merge"}

\* C14: when every parent-child segment has near-zero average radius, so
\* that no segment primitive is built, create_pyvista_primitives returns
\* None and generate_mesh_pyvista returns no mesh instead of going on to
\* voxelization.
C14_NoGeometry ==
    (PrimitivesReturned /\ EverySegmentNearZero) =>
        /\ primitive_mesh = NoMesh
        /\ pv_pc = "returned"
        /\ final_mesh = NoMesh
        /\ ~Attempted("voxelize")

\* a neuron whose thinnest node has radius 0.05 was voxelized at 0.1
C12_ClampedToMinimum ==
    /\ voxel_grid # NoMesh
    /\ ~voxel_size_arg.given
    /\ 3 * min_radius < 400000
    /\ voxel_grid.density = 400000

\* ------------------------------------------------------------------------
\* One Neuron handed to the three traversals in turn:
\* generate_mesh_sequential_boolean(neuron), neuron.topo_sort(),
\* create_pyvista_primitives(neuron)
\* ------------------------------------------------------------------------

\* Neuron(swc_filepath) is called on a file of one of the runs; the
\* traversals wait for the object
TraversalsInit ==
    /\ n_pc = "load_nodes"
    /\ \E c \in PvConfigs :
          /\ ~c.voxel_size.given
          /\ lines \in PvTracesUpTo(c, MaxLines)
    /\ line_no = 0
    /\ nodes = <<>>
    /\ root_node = NoNode
    /\ raised = NoError
    /\ current_neuron_mesh = <<>>
    /\ processed_nodes = {}
    /\ i = 0
    /\ stack = <<>>
    /\ pv_pc = "primitives"
    /\ voxel_size_arg = NoVoxelSize
    /\ min_radius = 0
    /\ voxel_size = 0
    /\ primitives = <<>>
    /\ pv_processed_nodes = {}
    /\ pv_stack = <<>>
    /\ pv_calls = <<>>
    /\ pv_steps = <<>>
    /\ primitive_mesh = NoMesh
    /\ voxel_grid = NoMesh
    /\ surface = NoMesh
    /\ final_mesh = NoMesh

InitTraversals == LodIdle /\ TraversalsInit /\ FrustumIdle /\ TopoIdle

NextTraversals ==
    \/ (ReadLine /\ UNCHANGED <<lodVars, frustumVars, topoVars, pvVars>>)
    \/ (get_root /\ UNCHANGED <<lodVars, frustumVars, topoVars, pvVars>>)
    \/ (check_unique_ids /\ UNCHANGED <<lodVars, frustumVars, topoVars, pvVars>>)
    \/ (StartAssemble /\ UNCHANGED <<lodVars, frustumVars, topoVars, pvVars>>)
    \/ (VisitChild /\ UNCHANGED <<lodVars, frustumVars, topoVars, pvVars>>)
    \/ (ReturnCall /\ UNCHANGED <<lodVars, frustumVars, topoVars, pvVars>>)
    \/ (n_pc = "assembled" /\ topo_sort
          /\ UNCHANGED <<lodVars, neuronVars, frustumVars, pvVars>>)
    \/ (add_recurse /\ UNCHANGED <<lodVars, neuronVars, frustumVars, pvVars>>)
    \/ (add_recurse_return
          /\ UNCHANGED <<lodVars, neuronVars, frustumVars, pvVars>>)
    \/ (t_pc = "returned" /\ create_pyvista_primitives
          /\ UNCHANGED <<lodVars, neuronVars, frustumVars, topoVars>>)
    \/ (PvVisitChild /\ UNCHANGED <<lodVars, neuronVars, frustumVars, topoVars>>)
    \/ (PvReturnCall /\ UNCHANGED <<lodVars, neuronVars, frustumVars, topoVars>>)
    \/ (merge_primitives
          /\ UNCHANGED <<lodVars, neuronVars, frustumVars, topoVars>>)

SpecTraversals == InitTraversals /\ [][NextTraversals]_vars

\* the three traversals have returned
TraversalsDone ==
    /\ n_pc = "assembled"
    /\ t_pc = "returned"
    /\ pv_pc \in {"voxelize", "returned"}

\* the nodes the analytic assembler called process_node_recursive on, as the
\* spheres it added for them, in order
AssemblerSpheres ==
    LET is_sphere(m) == m.kind = "Sphere"
    IN SelectSeq(current_neuron_mesh, is_sphere)

\* the spheres of a sequence of nodes
SpheresOf(ns) == [k \in 1..Len(ns) |-> Sphere(ns[k])]

\* C16: create_pyvista_primitives calls process_node_recursive on the same
\* nodes in the same order as the analytic assembler and as topo_sort lists
\* them, so no skipped segment keeps the descendants of its child node from
\* being visited.
C16_SameTraversal ==
    TraversalsDone =>
        /\ AssemblerSpheres = SpheresOf(sorted_nodes)
        /\ pv_calls = sorted_nodes
        /\ pv_processed_nodes = seen_ids

\* the analytic assembler and topo_sort agree on the order
AssemblerMatchesTopoSort ==
    TraversalsDone => AssemblerSpheres = SpheresOf(sorted_nodes)

\* a segment with coincident endpoints does not cut the volumetric traversal
\* short
CoincidentKeepsTraversal ==
    (/\ TraversalsDone
     /\ \A pc \in Segments : nodes[pc[1]].r + nodes[pc[2]].r >= 4)
        => pv_calls = sorted_nodes

NodeIds == {nodes[k].id : k \in 1..Len(nodes)}

\* the positions of value v in sequence seq
Occurrences(seq, v) == {k \in 1..Len(seq) : seq[k] = v}

\* C2: for every constructed Neuron the assembler's traversal visits every
\* node exactly once: when it returns, the processed set is the set of all
\* node ids and every node has contributed its sphere once.
C2_VisitsEveryNode ==
    n_pc = "assembled" =>
        /\ processed_nodes = NodeIds
        /\ \A k \in 1..Len(nodes) :
              Cardinality(Occurrences(current_neuron_mesh, Sphere(nodes[k]))) = 1

IsBlankLine(l) == \A k \in 1..Len(l) : l[k] \in Whitespace

IsCommentLine(l) ==
    \E k \in 1..Len(l) :
        /\ l[k] \in HashTokens
        /\ \A j \in 1..(k - 1) : l[j] \in Whitespace

NumFields(l) == Cardinality({k \in 1..Len(l) : l[k] \notin Whitespace})

\* a line that must become a node: neither blank nor a comment
IsRecordLine(l) == ~IsBlankLine(l) /\ ~IsCommentLine(l)

\* the exception came out of load_nodes' loop, at line line_no
RaisedInLoad ==
    /\ n_pc = "raised"
    /\ raised.msg \in {"Line does not contain 7 fields", "invalid literal"}

\* C3: comment lines and blank lines are skipped without a node or an
\* error; the field-count error is raised only for a record line whose
\* number of fields is not 7; every other record line yields one Node, in
\* file order.
C3_LineHandling ==
    /\ RaisedInLoad => IsRecordLine(lines[line_no])
    /\ (n_pc = "raised" /\ raised.msg = "Line does not contain 7 fields") =>
          NumFields(lines[line_no]) # FieldCount
    /\ n_pc = "load_nodes" =>
          LET records == {k \in 1..line_no : IsRecordLine(lines[k])}
          IN /\ Len(nodes) = Cardinality(records)
             /\ \A k \in records :
                   LET nth == Cardinality({j \in records : j <= k})
                       id_tok == CHOOSE t \in DOMAIN IntOf :
                                    IntOf[t] = nodes[nth].id
                   IN \E m \in 1..Len(lines[k]) :
                         /\ lines[k][m] = id_tok
                         /\ \A j \in 1..(m - 1) : lines[k][j] \in Whitespace

\* c is the content of line l: l without the whitespace around it
IsContentOf(c, l) ==
    \E a \in 0..Len(l), b \in 0..Len(l) :
        /\ a < b
        /\ c = SubSeq(l, a + 1, b)
        /\ l[a + 1] \notin Whitespace
        /\ l[b] \notin Whitespace
        /\ \A k \in (1..a) \cup ((b + 1)..Len(l)) : l[k] \in Whitespace

\* a line the format allows: blank, a comment, or a record of 7 fields that
\* convert
IsValidLine(l) ==
    \/ IsBlankLine(l)
    \/ IsCommentLine(l)
    \/ NumFields(l) = FieldCount /\ Convertible(split(l))

\* C4: a trace whose one bad line is a record of 6 fields (every other line
\* valid) makes construction raise an error that carries that line's
\* content, and no Neuron is produced, however many valid lines precede or
\* follow it.
C4_SixFieldLineNamed ==
    \A k \in 1..Len(lines) :
        ( /\ IsRecordLine(lines[k])
          /\ NumFields(lines[k]) = FieldCount - 1
          /\ \A j \in (1..Len(lines)) \ {k} : IsValidLine(lines[j]) )
        => /\ ~Constructed
           /\ n_pc # "check_ids"
           /\ n_pc = "raised" =>
                 /\ raised.msg = "Line does not contain 7 fields"
                 /\ IsContentOf(raised.line, lines[k])

\* the first field of a record line
IdToken(l) == l[CHOOSE k \in 1..Len(l) :
                    l[k] \notin Whitespace /\ \A j \in 1..(k - 1) : l[j] \in Whitespace]

\* two node records of the trace share their id
TraceHasDuplicateIds ==
    \E j, k \in 1..Len(lines) :
        /\ j # k
        /\ IsRecordLine(lines[j])
        /\ IsRecordLine(lines[k])
        /\ IdToken(lines[j]) = IdToken(lines[k])

\* C5: a trace in which two node records share an id never yields a Neuron,
\* whatever their parent_id values are.
C5_DuplicateIdsRaise == TraceHasDuplicateIds => ~Constructed

\* the duplicate check itself raised: the duplicated trace had passed
\* get_root with exactly one root candidate
C5_DuplicateCaught ==
    /\ n_pc = "raised"
    /\ raised = UniqueIdError
    /\ TraceHasDuplicateIds

\* the positions of the nodes whose parent_id is the id of no node
Unresolved ==
    {k \in 1..Len(nodes) : \A j \in 1..Len(nodes) : nodes[j].id # nodes[k].parent_id}

\* C6: construction raises whenever the number of nodes whose parent_id is
\* the id of no node is zero or greater than one; whenever get_root has
\* succeeded, root_node is the unique such node.
C6_SingleRoot ==
    /\ (n_pc = "check_ids" \/ Constructed) =>
          /\ Cardinality(Unresolved) = 1
          /\ \A k \in Unresolved : root_node = nodes[k]
    /\ (n_pc = "raised" /\ raised.msg = "Root node count != 1") =>
          Cardinality(Unresolved) # 1

\* get_root has raised on a trace all of whose nodes lie on a parent cycle,
\* and on a trace with more than one root candidate
C6_NoRootRaised ==
    /\ n_pc = "raised"
    /\ raised.msg = "Root node count != 1"
    /\ Len(nodes) >= 2
    /\ Unresolved = {}

\* the node that child's parent_id names
ParentOf(child) == nodes[CHOOSE k \in 1..Len(nodes) : nodes[k].id = child.parent_id]

\* C9: the returned mesh is the root's sphere followed, for every visited
\* non-root node, by the segment built between its parent (the node its
\* parent_id names) and itself and by its own sphere: one sphere per visited
\* node, one segment per visited non-root node, nothing else; a segment
\* whose ends are farther apart than the tolerance is a frustum, so the chain
\* 1 <- 2 <- 3 gives 3 spheres and 2 frustums.
C9_MeshContents ==
    n_pc = "assembled" =>
        LET M == current_neuron_mesh
            visited == {k \in 1..Len(nodes) : nodes[k].id \in processed_nodes}
        IN /\ Len(M) = 2 * Cardinality(visited) - 1
           /\ M[1] = Sphere(root_node)
           /\ \A k \in visited :
                 /\ Cardinality(Occurrences(M, Sphere(nodes[k]))) = 1
                 /\ nodes[k] # root_node =>
                       \E m \in 1..Len(M) :
                           /\ m % 2 = 1
                           /\ m > 1
                           /\ M[m] = Sphere(nodes[k])
                           /\ M[m - 1] = create_segment_frustum(
                                  ParentOf(nodes[k]), nodes[k], DefaultSections)
                           /\ ~is_degenerate(ParentOf(nodes[k]), nodes[k]) =>
                                 M[m - 1].kind = "frustum"
           /\ \A m \in 1..Len(M) :
                 (m % 2 = 1) <=> (M[m].kind = "Sphere")

\* the chain 1 <- 2 <- 3, centres apart, assembled into 3 spheres and 2
\* frustums
C9_ChainAssembled ==
    /\ n_pc = "assembled"
    /\ Len(nodes) = 3
    /\ \A k \in 1..3 : nodes[k].id = k
    /\ nodes[2].parent_id = 1
    /\ nodes[3].parent_id = 2
    /\ Cardinality({m \in 1..Len(current_neuron_mesh) :
                        current_neuron_mesh[m].kind = "Sphere"}) = 3
    /\ Cardinality({m \in 1..Len(current_neuron_mesh) :
                        current_neuron_mesh[m].kind = "frustum"}) = 2

\* ------------------------------------------------------------------------
\* create_segment_frustum on its own
\* ------------------------------------------------------------------------

InitFrustum == LodIdle /\ NeuronIdle /\ FrustumInit /\ TopoIdle /\ PvIdle

NextFrustum == CallFrustum /\ UNCHANGED <<lodVars, neuronVars, topoVars, pvVars>>

SpecFrustum == InitFrustum /\ [][NextFrustum]_vars

\* the indices of the cap centres in the vertices list (0-based, as the faces
\* hold them): the vertices of angle 0
CapCentres(m) == {k - 1 : k \in {j \in 1..Len(m.vertices) : m.vertices[j].angle = 0}}

\* the faces that hold exactly one cap centre, and those that hold none
CapFaces(m) ==
    {k \in 1..Len(m.faces) :
        Cardinality({c \in 1..3 : m.faces[k][c] \in CapCentres(m)}) = 1}

LateralFaces(m) ==
    {k \in 1..Len(m.faces) : \A c \in 1..3 : m.faces[k][c] \notin CapCentres(m)}

FartherThanTolerance ==
    length_squared(node1, node2) > DegeneracyTolerance * DegeneracyTolerance

\* the part of the claim the code agrees with: the caps, the vertices and
\* the index range
FrustumShape(m) ==
    /\ m.kind = "frustum"
    /\ Cardinality(CapFaces(m)) = 2 * sections
    /\ CapFaces(m) \cup LateralFaces(m) = 1..Len(m.faces)
    /\ Len(m.vertices) = 2 * sections + 2
    /\ Cardinality(CapCentres(m)) = 2
    /\ \A k \in 1..Len(m.faces) : \A c \in 1..3 :
          m.faces[k][c] \in 0..(Len(m.vertices) - 1)

C8_DegenerateIsSphere ==
    ( /\ f_pc = "returned"
      /\ length_squared(node1, node2) < DegeneracyTolerance * DegeneracyTolerance )
    => /\ frustum_mesh.kind = "icosphere"
       /\ frustum_mesh.radius = node1.r + node2.r
       /\ DOMAIN frustum_mesh = {"kind", "subdivisions", "radius"}

\* distinct centres within the tolerance of one another gave the icosphere
C8_NearCoincident ==
    /\ f_pc = "returned"
    /\ length_squared(node1, node2) > 0
    /\ length_squared(node1, node2) < DegeneracyTolerance * DegeneracyTolerance
    /\ frustum_mesh.kind = "icosphere"

====
